---- MODULE Spec2Model ----
(***************************************************************************)
(* Model of server.js: the two Express handlers                            *)
(*   POST /api/generate-sql  (prompt -> Gemini -> parsed JSON)              *)
(*   POST /api/execute-sql   (CREATE TABLE, INSERTs, query on a fresh       *)
(*                            in-memory sqlite3 database)                   *)
(* together with the parts of their environment the handlers rely on: the  *)
(* single-threaded run-to-completion event loop, the Express response      *)
(* object (a second send throws), and the sqlite3 Database object (a queue  *)
(* of operations that is worked once the database has opened, close being   *)
(* an exclusive operation that runs after everything queued before it).     *)
(***************************************************************************)
EXTENDS Integers, Sequences, FiniteSets, TLC

\* Longest insertDataSql array of a request.
MaxSeeds == 2
\* Longest reply of the text-generation service, in tokens.
MaxTextLen == 2

\* The two execution requests that may be in progress together, and the
\* synthesis request.
Reqs == {"e1", "e2"}
Gen == "g"
Handlers == Reqs \cup {Gen}

NoReq == [none |-> TRUE]
NoPrompt == "<no request>"
NoResult == [none |-> TRUE]

--------------------------------------------------------------------------
\* JSON values a body field can hold.
Absent == "undefined"
EmptyStr == ""
\* A truthy value that is not a string (a number, an object).
NonString == "<number>"
\* The insertDataSql field: missing, a truthy value that is not an array, or
\* an array with its items.
NoArray == [type |-> "undefined", items |-> <<>>]
NotArray == [type |-> "object", items |-> <<>>]
Array(s) == [type |-> "array", items |-> s]
IsArray(v) == v.type = "array"

\* SQL texts.
CreateT == "CREATE TABLE t (v)"
Insert1 == "INSERT INTO t VALUES (1)"
Insert2 == "INSERT INTO t VALUES (2)"
SelectT == "SELECT v FROM t"
Select7 == "SELECT 7"
BadSql == "SELEC"

Falsy(v) == v \in {Absent, EmptyStr}
IsString(v) == v \notin {Absent, NonString}

\* All sequences over S of length at most n.
SeqUpTo(S, n) == UNION {[1..k -> S] : k \in 0..n}

--------------------------------------------------------------------------
\* The SQLite engine on one database holding at most the table t.
EmptyDb == [exists |-> FALSE, rows |-> <<>>]

NoSuchTable == "SQLITE_ERROR: no such table: t"
TableExists == "SQLITE_ERROR: table t already exists"
SyntaxError == "SQLITE_ERROR: syntax error"
NoError == ""

\* Executing one statement: the error message (NoError on success), the
\* database afterwards and the rows the statement yields.
Exec(d, sql) ==
    CASE sql = CreateT ->
           IF d.exists
             THEN [err |-> TableExists, db |-> d, rows |-> <<>>]
             ELSE [err |-> NoError, db |-> [exists |-> TRUE, rows |-> <<>>], rows |-> <<>>]
      [] sql \in {Insert1, Insert2} ->
           IF d.exists
             THEN [err |-> NoError,
                   db |-> [d EXCEPT !.rows = Append(@, IF sql = Insert1 THEN 1 ELSE 2)],
                   rows |-> <<>>]
             ELSE [err |-> NoSuchTable, db |-> d, rows |-> <<>>]
      [] sql = SelectT ->
           IF d.exists
             THEN [err |-> NoError, db |-> d, rows |-> d.rows]
             ELSE [err |-> NoSuchTable, db |-> d, rows |-> <<>>]
      [] sql = Select7 -> [err |-> NoError, db |-> d, rows |-> <<7>>]
      [] OTHER -> [err |-> SyntaxError, db |-> d, rows |-> <<>>]

\* The storage behind a request's ':memory:' database: private to the
\* connection that opened it.
StoreShared(r) == "e1"
Store(r) == r

--------------------------------------------------------------------------
VARIABLES
    body,            \* body[r]: the JSON body of execution request r
    pc,              \* pc[r]: where the handler of request r stands
    i,               \* i[r]: seed statements issued so far (the for loop)
    conn,            \* conn[r]: state of r's Database object
    store,           \* store[s]: contents of storage s
    queue,           \* queue[r]: operations issued on r's Database, unfinished
    done,            \* done[r]: outcome of the head operation, callback pending
    ops,             \* ops[r]: the statements r has attempted, with outcome
    error,           \* error[r]: message of the Error the try block threw
    res,             \* res[h]: responses handler h has tried to send, in order
    thrown,          \* thrown[h]: an exception is leaving handler h's catch
    crashed,         \* the process died of an uncaught exception / rejection
    prompt,          \* the prompt field of the synthesis request
    gpc,             \* where the synthesis handler stands
    text,            \* the reply text of the text-generation service
    parsedResponse,  \* the value JSON.parse gave
    calls            \* number of model.generateContent calls made

vars == <<body, pc, i, conn, store, queue, done, ops, error, res, thrown,
          crashed, prompt, gpc, text, parsedResponse, calls>>

execVars == <<body, pc, i, conn, store, queue, done, ops, error>>
genVars == <<prompt, gpc, text, parsedResponse, calls>>

--------------------------------------------------------------------------
\* Responses.
Response(status, err, rows) == [status |-> status, error |-> err, results |-> rows]

\* res.status(..).json(..) / res.json(..): the first send goes out, a later
\* one throws ERR_HTTP_HEADERS_SENT; every attempt is recorded.
Sent(h) == res[h] # <<>>
Send(h, response) == res' = [res EXCEPT ![h] = Append(@, response)]

\* JavaScript runs one handler continuation at a time, to completion: these
\* are the positions inside a synchronous stretch.
SyncPcs == {"validate", "newDb", "create", "loop", "query", "catch", "finally"}
GenSyncPcs == {"gValidate", "gCall", "gParse", "gExtract", "gCatch"}
Busy == (\E r \in Reqs : pc[r] \in SyncPcs) \/ gpc \in GenSyncPcs

--------------------------------------------------------------------------
\* POST /api/execute-sql

\* The check that answers 400 when it fails.
ValidBodyNoArrayCheck(b) ==
    ~(Falsy(b.sqlQuery) \/ Falsy(b.createTableSql) \/ b.insertDataSql = NoArray)
ValidBody(b) ==
    ~(Falsy(b.sqlQuery) \/ Falsy(b.createTableSql) \/ b.insertDataSql = NoArray
        \/ ~IsArray(b.insertDataSql))

BadRequest ==
    Response(400, <<"SQL query, CREATE TABLE statement, and INSERT data are required.">>, <<>>)
OpenFailed == Response(500, <<"Failed to initialize database.">>, <<>>)

\* What the callback of new sqlite3.Database sends.
OpenCallback(err) == IF err THEN <<OpenFailed>> ELSE <<>>

\* What the callback of db.run(createTableSql) does with its promise.
CreateSettleResolves(err) == "resolve"
CreateSettle(err) == IF err # NoError THEN "reject" ELSE "resolve"

\* What the callback of db.run(insertStmt) does with its promise.
InsertSettleResolves(err) == "resolve"
InsertSettle(err) == IF err # NoError THEN "reject" ELSE "resolve"

\* What the callback of db.all(sqlQuery) sends.
QueryCallback(err, rows) ==
    IF err # NoError
      THEN <<Response(500, <<"Failed to execute query: ", err>>, <<>>)>>
      ELSE <<Response(200, <<>>, rows)>>

\* db.all is not awaited: the try block ends once the query is issued.
AfterQueryAwaited == "awaitQuery"
AfterQuery == "finally"

\* The finally block follows the catch block.
AfterCatchNoFinally == "returned"
AfterCatch == "finally"

\* The error body the catch block sends: error.message, or a fixed text.
Unexpected == <<"An unexpected error occurred during database operations.">>
CatchBodyGeneric(message) == Unexpected
CatchBody(message) == IF message # <<>> THEN message ELSE Unexpected

\* The TypeError sqlite3 throws when the SQL it is given is not a string.
NotSql == <<"SQL query expected">>

Op(kind, sql) == [kind |-> kind, sql |-> sql]
Attempt(kind, n, sql, st) == [kind |-> kind, n |-> n, sql |-> sql, st |-> st]

\* The outcome of the statement attempted last becomes st.
Settled(log, st) == [log EXCEPT ![Len(log)].st = st]

\* Express hands the request to the handler.
Dispatch(r) ==
    /\ ~crashed /\ ~Busy
    /\ pc[r] = "idle" /\ body[r] # NoReq
    /\ pc' = [pc EXCEPT ![r] = "validate"]
    /\ UNCHANGED <<body, i, conn, store, queue, done, ops, error, res, thrown,
                   crashed>>
    /\ UNCHANGED genVars

Validate(r) ==
    /\ ~crashed
    /\ pc[r] = "validate"
    /\ IF ValidBody(body[r])
         THEN /\ pc' = [pc EXCEPT ![r] = "newDb"]
              /\ UNCHANGED res
         ELSE /\ Send(r, BadRequest)
              /\ pc' = [pc EXCEPT ![r] = "returned"]
    /\ UNCHANGED <<body, i, conn, store, queue, done, ops, error, thrown, crashed>>
    /\ UNCHANGED genVars

\* new sqlite3.Database(':memory:', callback): the open is under way.
NewDatabase(r) ==
    /\ ~crashed
    /\ pc[r] = "newDb"
    /\ conn' = [conn EXCEPT ![r] = "opening"]
    /\ store' = [store EXCEPT ![Store(r)] = EmptyDb]
    /\ pc' = [pc EXCEPT ![r] = "create"]
    /\ UNCHANGED <<body, i, queue, done, ops, error, res, thrown, crashed>>
    /\ UNCHANGED genVars

\* Issuing db.run / db.all inside the try block: a string is queued on the
\* Database, anything else makes sqlite3 throw at once.
Issue(r, kind, n, sql, waiting) ==
    IF IsString(sql)
      THEN /\ queue' = [queue EXCEPT ![r] = Append(@, Op(kind, sql))]
           /\ ops' = [ops EXCEPT ![r] = Append(@, Attempt(kind, n, sql, "inflight"))]
           /\ pc' = [pc EXCEPT ![r] = waiting]
           /\ UNCHANGED error
      ELSE /\ ops' = [ops EXCEPT ![r] = Append(@, Attempt(kind, n, sql, "err"))]
           /\ error' = [error EXCEPT ![r] = NotSql]
           /\ pc' = [pc EXCEPT ![r] = "catch"]
           /\ UNCHANGED queue

RunCreate(r) ==
    /\ ~crashed
    /\ pc[r] = "create"
    /\ Issue(r, "create", 0, body[r].createTableSql, "awaitCreate")
    /\ UNCHANGED <<body, i, conn, store, done, res, thrown, crashed>>
    /\ UNCHANGED genVars

\* The for loop over insertDataSql.
Loop(r) ==
    /\ ~crashed
    /\ pc[r] = "loop"
    /\ IF i[r] < Len(body[r].insertDataSql.items)
         THEN /\ Issue(r, "insert", i[r] + 1, body[r].insertDataSql.items[i[r] + 1], "awaitInsert")
              /\ i' = [i EXCEPT ![r] = @ + 1]
         ELSE /\ pc' = [pc EXCEPT ![r] = "query"]
              /\ UNCHANGED <<i, queue, ops, error>>
    /\ UNCHANGED <<body, conn, store, done, res, thrown, crashed>>
    /\ UNCHANGED genVars

RunQuery(r) ==
    /\ ~crashed
    /\ pc[r] = "query"
    /\ Issue(r, "query", 0, body[r].sqlQuery, AfterQuery)
    /\ UNCHANGED <<body, i, conn, store, done, res, thrown, crashed>>
    /\ UNCHANGED genVars

Catch(r) ==
    /\ ~crashed
    /\ pc[r] = "catch"
    /\ Send(r, Response(500, CatchBody(error[r]), <<>>))
    /\ thrown' = [thrown EXCEPT ![r] = Sent(r)]
    /\ pc' = [pc EXCEPT ![r] = AfterCatch]
    /\ UNCHANGED <<body, i, conn, store, queue, done, ops, error, crashed>>
    /\ UNCHANGED genVars

\* finally: db.close(callback) is queued; an exception that left the catch
\* block now rejects the handler's promise, which nothing handles.
Finally(r) ==
    /\ ~crashed
    /\ pc[r] = "finally"
    /\ queue' = [queue EXCEPT ![r] = Append(@, Op("close", ""))]
    /\ pc' = [pc EXCEPT ![r] = "returned"]
    /\ crashed' = thrown[r]
    /\ UNCHANGED <<body, i, conn, store, done, ops, error, res, thrown>>
    /\ UNCHANGED genVars

--------------------------------------------------------------------------
\* The sqlite3 Database object of request r.

\* A callback that is not inside the async handler sends these responses;
\* a send after the first throws, and nothing catches it there.
CallbackSends(r, responses) ==
    /\ res' = [res EXCEPT ![r] = @ \o responses]
    /\ crashed' = (Len(res[r]) + Len(responses) > 1)

\* The open completes and its callback runs. On failure the operations
\* queued so far stay queued: the Database works its queue only once open.
Opened(r) ==
    /\ ~crashed /\ ~Busy
    /\ conn[r] = "opening"
    /\ \E err \in BOOLEAN :
          /\ conn' = [conn EXCEPT ![r] = IF err THEN "failed" ELSE "open"]
          /\ CallbackSends(r, OpenCallback(err))
    /\ UNCHANGED <<body, pc, i, store, queue, done, ops, error, thrown>>
    /\ UNCHANGED genVars

\* A worker thread runs the operation at the head of the queue; close is
\* exclusive, so it runs when everything issued before it has finished.
Work(r) ==
    /\ ~crashed
    /\ conn[r] = "open" /\ queue[r] # <<>> /\ done[r] = NoResult
    /\ LET op == Head(queue[r])
           out == Exec(store[Store(r)], op.sql)
       IN  IF op.kind = "close"
             THEN /\ conn' = [conn EXCEPT ![r] = "closed"]
                  /\ done' = [done EXCEPT ![r] = [err |-> NoError, rows |-> <<>>]]
                  /\ UNCHANGED store
             ELSE /\ store' = [store EXCEPT ![Store(r)] = out.db]
                  /\ done' = [done EXCEPT ![r] = [err |-> out.err, rows |-> out.rows]]
                  /\ UNCHANGED conn
    /\ UNCHANGED <<body, pc, i, queue, ops, error, res, thrown, crashed>>
    /\ UNCHANGED genVars

Finished(r, kind) ==
    /\ ~crashed /\ ~Busy
    /\ done[r] # NoResult
    /\ Head(queue[r]).kind = kind
    /\ queue' = [queue EXCEPT ![r] = Tail(@)]
    /\ done' = [done EXCEPT ![r] = NoResult]

\* The callback of a db.run settles the awaited promise; the handler goes on
\* in the same turn of the event loop.
Settle(r, how, prefix) ==
    IF how = "reject"
      THEN /\ error' = [error EXCEPT ![r] = <<prefix, done[r].err>>]
           /\ ops' = [ops EXCEPT ![r] = Settled(@, "err")]
           /\ pc' = [pc EXCEPT ![r] = "catch"]
      ELSE /\ ops' = [ops EXCEPT ![r] = Settled(@, IF done[r].err = NoError THEN "ok" ELSE "err")]
           /\ pc' = [pc EXCEPT ![r] = "loop"]
           /\ UNCHANGED error

CreateDone(r) ==
    /\ Finished(r, "create")
    /\ Settle(r, CreateSettle(done[r].err), "Failed to create table: ")
    /\ UNCHANGED <<body, i, conn, store, res, thrown, crashed>>
    /\ UNCHANGED genVars

InsertDone(r) ==
    /\ Finished(r, "insert")
    /\ Settle(r, InsertSettle(done[r].err), "Failed to insert data: ")
    /\ UNCHANGED <<body, i, conn, store, res, thrown, crashed>>
    /\ UNCHANGED genVars

QueryDone(r) ==
    /\ Finished(r, "query")
    /\ CallbackSends(r, QueryCallback(done[r].err, done[r].rows))
    /\ ops' = [ops EXCEPT ![r] = Settled(@, IF done[r].err = NoError THEN "ok" ELSE "err")]
    /\ UNCHANGED <<body, pc, i, conn, store, error, thrown>>
    /\ UNCHANGED genVars

\* The callback of db.close only logs.
CloseDone(r) ==
    /\ Finished(r, "close")
    /\ UNCHANGED <<body, pc, i, conn, store, ops, error, res, thrown, crashed>>
    /\ UNCHANGED genVars

--------------------------------------------------------------------------
\* POST /api/generate-sql

SomePrompt == "list students older than 20"

\* The check that answers 400 when it fails.
ValidPromptAbsentOnly(p) == p # Absent
ValidPrompt(p) == ~Falsy(p)

PromptRequired == Response(400, <<"Prompt is required.">>, <<>>)
ParseFailed ==
    Response(500, <<"Failed to parse Gemini response. It might not be valid JSON.">>, <<>>)
GenerateFailed == Response(500, <<"Failed to generate SQL. Please try again.">>, <<>>)
Generated == Response(200, <<>>, <<>>)

\* The reply text, trimmed, as the lines it is made of; [fence] stands for
\* the three backquotes of a Markdown code fence.
FenceTag == "[fence]json"
Fence == "[fence]"
JsonObject == "{sqlQuery: .., createTableSql: .., insertDataSql: [..]}"
JsonNull == "null"
Prose == "Here is the SQL you asked for:"
Tokens == {FenceTag, Fence, JsonObject, JsonNull, Prose}

\* Stripping the Markdown code block: only when the text starts with a
\* fence, the opening fence line goes, and then a fence ending the text.
Clean(t) ==
    IF t # <<>> /\ Head(t) \in {FenceTag, Fence}
      THEN LET rest == Tail(t)
           IN  IF rest # <<>> /\ rest[Len(rest)] = Fence
                 THEN SubSeq(rest, 1, Len(rest) - 1)
                 ELSE rest
      ELSE t

\* JSON.parse: the value, or "SyntaxError" when it throws.
JsonParse(t) ==
    IF t = <<JsonObject>> THEN "object"
    ELSE IF t = <<JsonNull>> THEN "null"
    ELSE "SyntaxError"

\* The inner catch returns from the handler.
AfterParseCatch == "gDone"

GenDispatch ==
    /\ ~crashed /\ ~Busy
    /\ gpc = "gIdle" /\ prompt # NoPrompt
    /\ gpc' = "gValidate"
    /\ UNCHANGED <<prompt, text, parsedResponse, calls, res, thrown, crashed>>
    /\ UNCHANGED execVars

GenValidate ==
    /\ ~crashed
    /\ gpc = "gValidate"
    /\ IF ValidPrompt(prompt)
         THEN /\ gpc' = "gCall"
              /\ UNCHANGED res
         ELSE /\ Send(Gen, PromptRequired)
              /\ gpc' = "gDone"
    /\ UNCHANGED <<prompt, text, parsedResponse, calls, thrown, crashed>>
    /\ UNCHANGED execVars

\* model.generateContent(geminiPrompt) is called and awaited.
GenCall ==
    /\ ~crashed
    /\ gpc = "gCall"
    /\ calls' = calls + 1
    /\ gpc' = "gAwait"
    /\ UNCHANGED <<prompt, text, parsedResponse, res, thrown, crashed>>
    /\ UNCHANGED execVars

\* The service answers with a text, or the call (or response.text()) fails.
UpstreamReply ==
    /\ ~crashed /\ ~Busy
    /\ gpc = "gAwait"
    /\ \/ /\ gpc' = "gCatch"
          /\ UNCHANGED text
       \/ \E t \in SeqUpTo(Tokens, MaxTextLen) :
             /\ text' = t
             /\ gpc' = "gParse"
    /\ UNCHANGED <<prompt, parsedResponse, calls, res, thrown, crashed>>
    /\ UNCHANGED execVars

GenParse ==
    /\ ~crashed
    /\ gpc = "gParse"
    /\ LET v == JsonParse(Clean(text))
       IN  IF v = "SyntaxError"
             THEN /\ Send(Gen, ParseFailed)
                  /\ gpc' = AfterParseCatch
                  /\ UNCHANGED parsedResponse
             ELSE /\ parsedResponse' = v
                  /\ gpc' = "gExtract"
                  /\ UNCHANGED res
    /\ UNCHANGED <<prompt, text, calls, thrown, crashed>>
    /\ UNCHANGED execVars

\* Destructuring parsedResponse throws on null and undefined; res.json
\* throws when a response went out already. Both land in the outer catch.
GenExtract ==
    /\ ~crashed
    /\ gpc = "gExtract"
    /\ IF parsedResponse \in {"null", "undefined"}
         THEN /\ gpc' = "gCatch"
              /\ UNCHANGED res
         ELSE /\ Send(Gen, Generated)
              /\ gpc' = IF Sent(Gen) THEN "gCatch" ELSE "gDone"
    /\ UNCHANGED <<prompt, text, parsedResponse, calls, thrown, crashed>>
    /\ UNCHANGED execVars

\* The outer catch; an exception thrown here rejects the handler's promise,
\* which nothing handles.
GenCatch ==
    /\ ~crashed
    /\ gpc = "gCatch"
    /\ Send(Gen, GenerateFailed)
    /\ thrown' = [thrown EXCEPT ![Gen] = Sent(Gen)]
    /\ crashed' = Sent(Gen)
    /\ gpc' = "gDone"
    /\ UNCHANGED <<prompt, text, parsedResponse, calls>>
    /\ UNCHANGED execVars

--------------------------------------------------------------------------
\* The requests sent to the server.

Body(q, c, s) == [sqlQuery |-> q, createTableSql |-> c, insertDataSql |-> s]

\* One execution request, of any shape.
AnyBody ==
    { Body(q, c, s) :
        q \in {Absent, EmptyStr, NonString, SelectT, BadSql},
        c \in {Absent, EmptyStr, NonString, CreateT, Select7, BadSql},
        s \in {NoArray, NotArray}
                \cup {Array(a) : a \in SeqUpTo({CreateT, Insert1, Insert2, BadSql, NonString}, MaxSeeds)} }

\* Execution requests in progress together.
PlainBody ==
    { Body(SelectT, c, s) :
        c \in {CreateT, Select7},
        s \in {Array(a) : a \in SeqUpTo({Insert1, Insert2}, MaxSeeds)} }

Prompts == {Absent, EmptyStr, SomePrompt}

Init ==
    /\ pc = [r \in Reqs |-> "idle"]
    /\ i = [r \in Reqs |-> 0]
    /\ conn = [r \in Reqs |-> "none"]
    /\ store = [r \in Reqs |-> EmptyDb]
    /\ queue = [r \in Reqs |-> <<>>]
    /\ done = [r \in Reqs |-> NoResult]
    /\ ops = [r \in Reqs |-> <<>>]
    /\ error = [r \in Reqs |-> <<>>]
    /\ res = [h \in Handlers |-> <<>>]
    /\ thrown = [h \in Handlers |-> FALSE]
    /\ crashed = FALSE
    /\ gpc = "gIdle"
    /\ text = <<>>
    /\ parsedResponse = "undefined"
    /\ calls = 0
    /\ \/ /\ prompt \in Prompts
          /\ body = [r \in Reqs |-> NoReq]
       \/ /\ prompt = NoPrompt
          /\ \E b \in AnyBody : body = [r \in Reqs |-> IF r = "e1" THEN b ELSE NoReq]
       \/ /\ prompt = NoPrompt
          /\ body \in [Reqs -> PlainBody]

Next ==
    \/ \E r \in Reqs :
          \/ Dispatch(r)
          \/ Validate(r)
          \/ NewDatabase(r)
          \/ RunCreate(r)
          \/ Loop(r)
          \/ RunQuery(r)
          \/ Catch(r)
          \/ Finally(r)
          \/ Opened(r)
          \/ Work(r)
          \/ CreateDone(r)
          \/ InsertDone(r)
          \/ QueryDone(r)
          \/ CloseDone(r)
    \/ GenDispatch
    \/ GenValidate
    \/ GenCall
    \/ UpstreamReply
    \/ GenParse
    \/ GenExtract
    \/ GenCatch

Spec == Init /\ [][Next]_vars

--------------------------------------------------------------------------
\* Properties.

Last(s) == s[Len(s)]
Seeds(r) == body[r].insertDataSql.items
Active(r) == body[r] # NoReq
CloseIssued(r) ==
    conn[r] = "closed" \/ \E k \in DOMAIN queue[r] : queue[r][k].kind = "close"
\* The handler has returned and nothing of the request is left to run.
Terminal(r) == pc[r] = "returned" /\ queue[r] = <<>> /\ done[r] = NoResult
FailedAt(r, kind) == \E k \in DOMAIN ops[r] : ops[r][k].kind = kind /\ ops[r][k].st = "err"

\* C1: a request that created its database issues db.close as the last
\* operation on it on every exit path (table-definition failure, seed
\* failure, query failure, success), nothing runs on the database after the
\* close, and no request that has run to its end leaves its database open.
C1_CloseOnEveryExit ==
    \A r \in Reqs :
        /\ (pc[r] = "returned" /\ conn[r] # "none") =>
              /\ CloseIssued(r)
              /\ queue[r] # <<>> => Last(queue[r]).kind = "close"
        /\ conn[r] = "closed" => \A k \in DOMAIN queue[r] : queue[r][k].kind = "close"
        /\ Terminal(r) => conn[r] \in {"none", "closed"}

\* A request whose second seed statement failed has run to its end with its
\* database closed.
C1_Witness ==
    \E r \in Reqs :
        /\ Terminal(r) /\ conn[r] = "closed"
        /\ Len(ops[r]) = 3 /\ Last(ops[r]).kind = "insert" /\ Last(ops[r]).st = "err"

\* C2 as stated: no response of an execution request has been sent while
\* the database of the request is open (here for the requests all of whose
\* statements reached the engine).
C2_ClosedBeforeResponse ==
    \A r \in Reqs :
        (Sent(r) /\ \A k \in DOMAIN ops[r] : IsString(ops[r][k].sql)) => conn[r] # "open"

\* C2 as amended: the response precedes the close. A database is closed
\* only after the response of its request has gone out; and once a response
\* has gone out while the database is not closed yet, db.close has been
\* issued on it (the query paths: the close is queued behind the query
\* before the query callback responds) or is the very next step of the
\* handler (the catch block has responded and the finally block follows).
C2_CloseIssuedOrNext ==
    \A r \in Reqs :
        /\ conn[r] = "closed" => Sent(r)
        /\ (Sent(r) /\ conn[r] \in {"opening", "open"}) =>
              (pc[r] = "finally" \/ CloseIssued(r))

\* The catch block has answered a failed table definition, the database is
\* open and db.close has not been issued yet.
C2_Witness ==
    \E r \in Reqs :
        /\ Sent(r) /\ conn[r] = "open" /\ pc[r] = "finally" /\ ~CloseIssued(r)
        /\ FailedAt(r, "create")

\* C3: the handler of an execution request tries to send at most one
\* response.
C3_OneResponse == \A r \in Reqs : Len(res[r]) <= 1

\* C4: an execution request with the query, the table definition or the seed
\* statements missing, or with seed statements that are no array, is
\* answered 400 and no database is created for it; one with a query, a table
\* definition and an empty array of seed statements gets past the check.
MissingField(b) ==
    \/ b.sqlQuery \in {Absent, EmptyStr}
    \/ b.createTableSql \in {Absent, EmptyStr}
    \/ b.insertDataSql.type # "array"
C4_InvalidInput ==
    \A r \in Reqs :
        (Active(r) /\ pc[r] \notin {"idle", "validate"}) =>
            /\ MissingField(body[r]) =>
                  /\ res[r] = <<BadRequest>>
                  /\ conn[r] = "none" /\ ops[r] = <<>> /\ queue[r] = <<>>
                  /\ pc[r] = "returned"
            /\ (~MissingField(body[r]) /\ pc[r] # "newDb") =>
                  /\ conn[r] # "none"
                  /\ \A k \in DOMAIN res[r] : res[r][k].status # 400

\* A request whose insertDataSql is not an array has been answered 400.
C4_Witness ==
    \E r \in Reqs :
        /\ Active(r) /\ body[r].insertDataSql = NotArray
        /\ ~Falsy(body[r].sqlQuery) /\ ~Falsy(body[r].createTableSql)
        /\ res[r] = <<BadRequest>> /\ conn[r] = "none"

\* C5: a synthesis request whose prompt is empty or absent is answered 400
\* and model.generateContent is never called for it.
C5_EmptyPrompt ==
    (prompt \in {Absent, EmptyStr} /\ gpc \notin {"gIdle", "gValidate"}) =>
        /\ res[Gen] = <<PromptRequired>>
        /\ calls = 0
        /\ gpc = "gDone"

C5_Witness == prompt = EmptyStr /\ gpc = "gDone" /\ res[Gen] = <<PromptRequired>> /\ calls = 0

\* C6: the first failing statement is the last one attempted: after a failed
\* table definition no seed statement and no query is attempted, after a
\* failed seed statement no later seed statement and no query is attempted.
C6_ShortCircuit ==
    \A r \in Reqs : \A k \in DOMAIN ops[r] :
        ops[r][k].st = "err" => k = Len(ops[r])

\* The first of two seed statements failed, the request has run to its end,
\* and neither the second seed statement nor the query was attempted.
C6_Witness ==
    \E r \in Reqs :
        /\ Terminal(r) /\ Active(r) /\ Len(Seeds(r)) = 2
        /\ Len(ops[r]) = 2 /\ ops[r][2].kind = "insert" /\ ops[r][2].st = "err"

\* C7: no failure path of either handler ends in an uncaught exception or an
\* unhandled rejection, which would end the process.
C7_NoCrash == ~crashed

\* The response a request gets when its statements run one after the other
\* on a database of its own that nothing else touches.
RECURSIVE SeedsAlone(_, _)
SeedsAlone(d, items) ==
    IF items = <<>> THEN [error |-> <<>>, db |-> d]
    ELSE IF ~IsString(Head(items)) THEN [error |-> NotSql, db |-> d]
    ELSE LET out == Exec(d, Head(items))
         IN  IF out.err # NoError
               THEN [error |-> <<"Failed to insert data: ", out.err>>, db |-> d]
               ELSE SeedsAlone(out.db, Tail(items))

Alone(b) ==
    IF MissingField(b) THEN BadRequest
    ELSE IF ~IsString(b.createTableSql) THEN Response(500, NotSql, <<>>)
    ELSE LET c == Exec(EmptyDb, b.createTableSql)
         IN  IF c.err # NoError
               THEN Response(500, <<"Failed to create table: ", c.err>>, <<>>)
               ELSE LET s == SeedsAlone(c.db, b.insertDataSql.items)
                    IN  IF s.error # <<>> THEN Response(500, s.error, <<>>)
                        ELSE IF ~IsString(b.sqlQuery) THEN Response(500, NotSql, <<>>)
                        ELSE LET q == Exec(s.db, b.sqlQuery)
                             IN  IF q.err # NoError
                                   THEN Response(500, <<"Failed to execute query: ", q.err>>, <<>>)
                                   ELSE Response(200, <<>>, q.rows)

\* C8: under every interleaving of the database operations of two
\* execution requests, the response of a request whose database opened is
\* the one its own three artifacts give on a database of its own: nothing
\* the other request created is visible to it.
C8_Isolation ==
    \A r \in Reqs :
        (Active(r) /\ Sent(r) /\ conn[r] # "failed") => res[r][1] = Alone(body[r])

\* Both requests have been answered with rows, not the same ones, while
\* both databases were still open.
C8_Witness ==
    /\ \A r \in Reqs : Sent(r) /\ res[r][1].status = 200 /\ conn[r] = "open"
    /\ res["e1"][1].results # res["e2"][1].results
    /\ res["e1"][1].results # <<>> /\ res["e2"][1].results # <<>>

SeedFailed(r, k) ==
    /\ k \in DOMAIN ops[r]
    /\ ops[r][k].kind = "insert" /\ ops[r][k].st = "err"
    /\ pc[r] \in {"finally", "returned"}

\* C9 as stated: the error response for a seed statement the engine
\* rejected names the statement that failed, by its 1-based position or by
\* its text.
C9_SeedErrorNamesStatement ==
    \A r \in Reqs : \A k \in DOMAIN ops[r] :
        (SeedFailed(r, k) /\ IsString(ops[r][k].sql)) =>
            /\ Sent(r)
            /\ \E j \in DOMAIN res[r][1].error :
                  res[r][1].error[j] \in {ToString(ops[r][k].n), ops[r][k].sql}

\* C9 as amended: the error response for a seed statement the engine
\* rejected is 500 with "Failed to insert data: " followed by the message of
\* the engine, and nothing else (for a seed that is not a string, the
\* message of the TypeError sqlite3 throws).
C9_SeedErrorMessage ==
    \A r \in Reqs : \A k \in DOMAIN ops[r] :
        SeedFailed(r, k) =>
            /\ Sent(r)
            /\ res[r][1] =
                  Response(500,
                           IF IsString(ops[r][k].sql)
                             THEN <<"Failed to insert data: ",
                                    Exec(store[Store(r)], ops[r][k].sql).err>>
                             ELSE NotSql,
                           <<>>)

\* The second seed statement failed in the engine and the response is out.
C9_Witness ==
    \E r \in Reqs :
        /\ SeedFailed(r, 3) /\ IsString(ops[r][3].sql) /\ Sent(r)
        /\ res[r][1].error = <<"Failed to insert data: ", SyntaxError>>

\* C10: the statements of a request run one at a time and in order: the
\* table definition first, then the seed statements in array order, then
\* the query, each issued only when the one before it has completed
\* successfully; never are two of them in flight together.
C10_Sequential ==
    \A r \in Reqs :
        /\ Cardinality({k \in DOMAIN ops[r] : ops[r][k].st = "inflight"}) <= 1
        /\ \A k \in DOMAIN ops[r] :
              /\ k > 1 => ops[r][k - 1].st = "ok"
              /\ (k = 1) <=> (ops[r][k].kind = "create")
              /\ ops[r][k].kind = "insert" =>
                    /\ ops[r][k].n = k - 1
                    /\ ops[r][k].sql = Seeds(r)[k - 1]
              /\ ops[r][k].kind = "query" => k = Len(Seeds(r)) + 2

\* The query is in flight after two different seed statements completed.
C10_Witness ==
    \E r \in Reqs :
        /\ Len(ops[r]) = 4 /\ ops[r][4].kind = "query" /\ ops[r][4].st = "inflight"
        /\ ops[r][2].st = "ok" /\ ops[r][3].st = "ok" /\ ops[r][2].sql # ops[r][3].sql

====
